---- MODULE Spec2Model ----
(***************************************************************************)
(* A model of the hand-written code of the NLP notebooks: the bag-of-words *)
(* vectorizer to_bow, the minibatch builder get_batch, the text sampler    *)
(* generate, and the three training loops (train_epoch, the generative     *)
(* training loop, the BERT fine-tuning loop) with the BERT evaluation      *)
(* loop.  The neural network, the loss and the optimizer are library      *)
(* objects: the network's outputs are nondeterministic choices, the        *)
(* gradient buffer and the parameters are small integers that follow the   *)
(* library's contract (backward accumulates into the buffer, zero_grad     *)
(* clears it, step applies it to the parameters).                          *)
(*                                                                         *)
(* A Python str is a sequence of characters; a Python list of tokens is a  *)
(* sequence of strings.  Tensors are indexed from 0, as in the code: a     *)
(* vector is a function on 0..n-1, a matrix a function from 0..rows-1 to   *)
(* vectors.                                                                *)
(***************************************************************************)
EXTENDS Integers, Sequences, FiniteSets, TLC

VARIABLES
    prog,            \* which notebook cell is running
    pc,              \* position inside that cell
    \* ---- to_bow (2-representing-text) ----
    wordvec,         \* the token indices of the text
    perm,            \* a reordering of wordvec
    bow_vocab_size,  \* the size argument of to_bow
    res,             \* to_bow(wordvec, bow_vocab_size)
    res_perm,        \* to_bow(perm, bow_vocab_size)
    \* ---- get_batch (generative notebook) ----
    s,               \* the tokenized text, a list of characters
    nchars,          \* the sequence length
    batch,           \* what get_batch returned: [ins, outs] or Raised
    \* ---- generate (generative notebook) ----
    start,           \* the initial string
    size,            \* the number of characters asked for
    chars,           \* the list of tokens built so far
    gi,              \* the loop index of generate
    ret,             \* the string generate returned
    \* ---- the training and evaluation loops ----
    mode,            \* "train" or "eval": the mode of the network
    grad,            \* the gradient buffer of the parameters
    params,          \* the parameters of the network
    opt_steps,       \* the number of optimizer.step() calls
    loader,          \* what the iterator of the loop has still to yield
    test_loader,     \* what test_iter has still to yield
    cur,             \* labels, out and loss of the current iteration
    i,               \* the iteration counter i of the running loop
    count,           \* train_epoch: samples seen
    acc,             \* train_epoch: correct predictions; evaluation: summed accuracy
    total_loss,      \* train_epoch: summed loss
    epoch_size,      \* train_epoch: the limit, 0 for None
    report_freq,     \* train_epoch and BERT: the reporting period
    samples_to_train,\* generative loop: the countdown
    c,               \* BERT: the divisor of the running means
    acc_loss,        \* BERT: loss summed since the last report
    acc_acc,         \* BERT: accuracy summed since the last report
    iterations,      \* BERT: the countdown; evaluation: the limit
    printed,         \* the lines printed so far
    result,          \* what train_epoch returned
    \* ---- history, read by the properties only ----
    dataset,         \* everything the training iterator yields, from the start
    samples0,        \* samples_to_train before the generative loop
    hist,            \* the minibatches that went through the forward pass
    params0,         \* the parameters when model.eval() was called
    iterations0,     \* iterations before the BERT training loop
    \* ---- pad_length (6-attention-transformers) ----
    pad_b,           \* the minibatch b: a list of (label, token sequence) pairs
    pad_out,         \* what pad_length returned: labels, features, lengths
    \* ---- char_tokenizer and encode_text (generative notebook) ----
    text,            \* the string to tokenize
    tokens,          \* char_tokenizer(text)
    codes,           \* encode_text(tokens)
    decoded,         \* the codes mapped back through itos and joined
    \* ---- TF-IDF (2-representing-text) ----
    tfidf_row        \* the row the TF-IDF cell evaluates to, in units of 10^-8

bowvars == <<wordvec, perm, bow_vocab_size, res, res_perm>>
batchvars == <<s, nchars, batch>>
genvars == <<start, size, chars, gi, ret>>
loopvars == <<mode, grad, params, opt_steps, loader, test_loader, cur, i, count, acc,
              total_loss, epoch_size, report_freq, samples_to_train, c, acc_loss,
              acc_acc, iterations, printed, result, dataset, samples0, hist, params0>>
padvars == <<pad_b, pad_out>>
tokvars == <<text, tokens, codes, decoded>>
extvars == <<iterations0, padvars, tokvars, tfidf_row>>
vars == <<prog, pc, bowvars, batchvars, genvars, loopvars, extvars>>

----------------------------------------------------------------------------
(* Bounds of the model *)
MaxLen == 3        \* longest token sequence given to to_bow
MaxTok == 3        \* largest token index
MaxVocab == 3      \* largest bow_vocab_size
MaxText == 4       \* longest text given to get_batch
MaxNchars == 2     \* largest nchars
MaxStart == 2      \* longest start string of generate
MaxSize == 3       \* largest size of generate
MaxSamples == 5    \* largest dataset given to train_epoch
MaxBatch == 2      \* largest batch_size of its DataLoader
MaxEpoch == 3      \* largest epoch_size
MaxFreq == 2       \* largest report_freq
MaxExamples == 5   \* most texts in the dataset of the generative loop
MaxToTrain == 3    \* largest samples_to_train
MaxLoss == 2       \* largest loss of the generative network, in loss units
PrintEvery == 2    \* the reporting period of the generative loop (1000 in the notebook)
BatchSize == 2     \* samples per BERT minibatch (16 in the notebook)
MaxBatches == 4    \* most minibatches train_iter yields
MaxTest == 3       \* most minibatches test_iter yields
MaxIter == 4       \* largest iterations of the BERT training cell
EvalIterations == 1 \* iterations of the evaluation cell (100 in the notebook)
ParamMod == 4      \* the parameters are kept modulo ParamMod
MaxPadBatch == 2   \* most samples in the minibatch given to pad_length
MaxSeq == 2        \* longest token sequence of a sample

(* Constants of the notebooks *)
nchars_default == 100   \* nchars = 100
MinRows == 10           \* if len(x.Text)-nchars<10: continue

----------------------------------------------------------------------------
(* Sequences and strings *)

\* all sequences over S of length at most n
SeqsUpTo(S, n) == UNION {[1..k -> S] : k \in 0..n}

\* Python's a[lo:hi] for 0 <= lo, 0 <= hi: clipped to the sequence
Slice(a, lo, hi) ==
    LET h == IF hi > Len(a) THEN Len(a) ELSE hi
    IN  IF lo >= h THEN <<>> ELSE [k \in 1..(h - lo) |-> a[lo + k]]

\* the characters of the texts; "z" is in no vocabulary
Alphabet == {"a", "b", "z"}

\* TEXT.vocab.itos: the specials first, then the characters of the corpus
itos == << <<"<", "u", "n", "k", ">">>, <<"<", "p", "a", "d", ">">>, <<"a">>, <<"b">> >>

vocab_size == Len(itos)

\* TEXT.vocab.itos[nc] for a 0-based index
itos_at(nc) == itos[nc + 1]

stoi_onebased(t) ==
    IF \E k \in 1..Len(itos) : itos[k] = t
    THEN CHOOSE k \in 1..Len(itos) : itos[k] = t
    ELSE 0

\* TEXT.vocab.stoi[t]: a defaultdict, unknown tokens map to <unk> = 0
stoi(t) ==
    IF \E k \in 1..Len(itos) : itos[k] = t
    THEN (CHOOSE k \in 1..Len(itos) : itos[k] = t) - 1
    ELSE 0

\* list(words): one one-character string per character
char_tokenizer(words) == [k \in 1..Len(words) |-> <<words[k]>>]

\* ''.join(chars)
RECURSIVE join(_)
join(cs) == IF cs = <<>> THEN <<>> ELSE Head(cs) \o join(Tail(cs))

\* torch.LongTensor([TEXT.vocab.stoi[t] for t in s]) as a 0-based vector
encode_text(toks) == [k \in 0..(Len(toks) - 1) |-> stoi(toks[k + 1])]

\* the number of entries of a 0-based vector
VLen(v) == Cardinality(DOMAIN v)

----------------------------------------------------------------------------
(* to_bow *)

\* torch.zeros(n)
zeros(n) == [k \in 0..(n - 1) |-> 0]

\* the loop body of to_bow: if i<bow_vocab_size: res[i] += 1
bow_add_set(r, tok, V) == IF tok < V THEN [r EXCEPT ![tok] = 1] ELSE r

bow_add(r, tok, V) == IF tok < V THEN [r EXCEPT ![tok] = @ + 1] ELSE r

\* for i in wordvec: ... over the tokens from position k on
RECURSIVE bow_loop(_, _, _, _)
bow_loop(w, k, r, V) ==
    IF k > Len(w) THEN r ELSE bow_loop(w, k + 1, bow_add(r, w[k], V), V)

to_bow_droplast(w, V) == bow_loop(Slice(w, 0, Len(w) - 1), 1, zeros(V), V)

to_bow(w, V) == bow_loop(w, 1, zeros(V), V)

----------------------------------------------------------------------------
(* get_batch *)

Raised == [raised |-> TRUE]

\* torch.zeros(rows, cols, dtype=long)
zeros2(rows, cols) == [r \in 0..(rows - 1) |-> zeros(cols)]

\* ins[i] = v: the row keeps its shape; a one-element v is broadcast,
\* any other length is a shape error
row_fits(v, cols) == VLen(v) = cols \/ VLen(v) = 1

row_value(v, cols) == IF VLen(v) = cols THEN v ELSE [k \in 0..(cols - 1) |-> v[0]]

\* input row i of get_batch
in_row_short(txt, r, n) == encode_text(Slice(txt, r, r + n - 1))

in_row(txt, r, n) == encode_text(Slice(txt, r, r + n))

\* output row i of get_batch
out_row_same(txt, r, n) == encode_text(Slice(txt, r, r + n))

out_row(txt, r, n) == encode_text(Slice(txt, r + 1, r + n + 1))

get_batch_clamped(txt, n) ==
    LET rows == IF Len(txt) - n < 0 THEN 0 ELSE Len(txt) - n
    IN  IF \E r \in 0..(rows - 1) :
               ~row_fits(in_row(txt, r, n), n) \/ ~row_fits(out_row(txt, r, n), n)
        THEN Raised
        ELSE [raised |-> FALSE,
              ins  |-> [r \in DOMAIN zeros2(rows, n) |-> row_value(in_row(txt, r, n), n)],
              outs |-> [r \in DOMAIN zeros2(rows, n) |-> row_value(out_row(txt, r, n), n)]]

get_batch(txt, n) ==
    LET rows == Len(txt) - n
    IN  IF rows < 0 THEN Raised
        ELSE IF \E r \in 0..(rows - 1) :
                    ~row_fits(in_row(txt, r, n), n) \/ ~row_fits(out_row(txt, r, n), n)
        THEN Raised
        ELSE [raised |-> FALSE,
              ins  |-> [r \in DOMAIN zeros2(rows, n) |-> row_value(in_row(txt, r, n), n)],
              outs |-> [r \in DOMAIN zeros2(rows, n) |-> row_value(out_row(txt, r, n), n)]]

----------------------------------------------------------------------------
(* pad_length *)

\* torch.tensor(a list) as a 0-based vector
tensor(lst) == [k \in 0..(Len(lst) - 1) |-> lst[k + 1]]

\* max(len_seq)
RECURSIVE max(_)
max(lst) ==
    IF Len(lst) = 1 THEN lst[1]
    ELSE LET m == max(Tail(lst)) IN IF lst[1] > m THEN lst[1] ELSE m

\* torch.nn.functional.pad(v,(left,right),mode='constant',value=0)
pad_swapped(v, left, right) ==
    [k \in 0..(VLen(v) + left + right - 1) |->
        IF k >= right /\ k < right + VLen(v) THEN v[k - right] ELSE 0]

pad(v, left, right) ==
    [k \in 0..(VLen(v) + left + right - 1) |->
        IF k >= left /\ k < left + VLen(v) THEN v[k - left] ELSE 0]

\* torch.stack(rows): all rows must have one length
stack(rows) ==
    IF \A x, y \in 1..Len(rows) : VLen(rows[x]) = VLen(rows[y])
    THEN [raised |-> FALSE, value |-> tensor(rows)]
    ELSE Raised

\* a sample is a pair (label, token sequence): x[0] is the label, x[1] the sequence
pad_length(mb) ==
    IF mb = <<>> THEN Raised    \* max() of an empty list
    ELSE LET len_seq == [k \in 1..Len(mb) |-> Len(mb[k][2])]
             l == max(len_seq)
             stacked == stack([k \in 1..Len(mb) |->
                                  pad(tensor(mb[k][2]), 0, l - Len(mb[k][2]))])
         IN  IF stacked.raised THEN Raised
             ELSE [raised |-> FALSE,
                   labels |-> tensor([k \in 1..Len(mb) |-> mb[k][1]]),
                   features |-> stacked.value,
                   lengths |-> tensor(len_seq)]

\* the class numbers and the token indices of the samples; 0 is also a token
PadLabels == {1, 4}

PadToks == {0, 7}

----------------------------------------------------------------------------
(* TF-IDF vectorization of the three-sentence corpus *)

\* the sentences of the corpus and the transformed sentence, as their
\* lower-cased words
corpus ==
    << <<"i", "like", "hot", "dogs">>,
       <<"the", "dog", "ran", "fast">>,
       <<"its", "hot", "outside">> >>

query == <<"my", "dog", "likes", "hot", "dogs", "on", "a", "hot", "day">>

\* the vectorizer keeps the words of two or more letters
IsToken(w) == w \notin {"i", "a"}

analyze(doc) == SelectSeq(doc, IsToken)

\* ngram_range=(1,2): the words, then the pairs of neighbouring words
ngrams(doc) ==
    LET toks == analyze(doc)
    IN  [k \in 1..Len(toks) |-> <<toks[k]>>]
            \o [k \in 1..(Len(toks) - 1) |-> <<toks[k], toks[k + 1]>>]

\* the features fitted on the corpus, in the vectorizer's (sorted) order
feature_names ==
    << <<"dog">>, <<"dog", "ran">>, <<"dogs">>, <<"fast">>, <<"hot">>,
       <<"hot", "dogs">>, <<"hot", "outside">>, <<"its">>, <<"its", "hot">>,
       <<"like">>, <<"like", "hot">>, <<"outside">>, <<"ran">>,
       <<"ran", "fast">>, <<"the">>, <<"the", "dog">> >>

\* tf: the occurrences of a feature in a document
tf(f, doc) == Cardinality({p \in 1..Len(ngrams(doc)) : ngrams(doc)[p] = f})

\* df: the documents of the corpus that hold a feature
df(f) == Cardinality({d \in 1..Len(corpus) : tf(f, corpus[d]) > 0})

\* the array the cell shows for the transformed sentence, in units of 10^-8
transform_output ==
    <<43381609, 0, 43381609, 0, 65985664, 43381609, 0, 0, 0, 0, 0, 0, 0, 0, 0, 0>>

----------------------------------------------------------------------------
(* Initial states: one cell is chosen and its inputs are drawn *)

NoBatch == [raised |-> FALSE, ins |-> <<>>, outs |-> <<>>]

BowIdle ==
    /\ wordvec = <<>> /\ perm = <<>> /\ bow_vocab_size = 0
    /\ res = <<>> /\ res_perm = <<>>

BatchIdle == s = <<>> /\ nchars = 0 /\ batch = NoBatch

GenIdle == start = <<>> /\ size = 0 /\ chars = <<>> /\ gi = 0 /\ ret = <<>>

NoCur == [n |-> 0, ok |-> 0, loss |-> 0]

NoResult == [returned |-> FALSE]

\* a freshly built network and optimizer, nothing accumulated or printed
LoopFresh ==
    /\ mode = "train" /\ grad = 0 /\ params = 0 /\ opt_steps = 0
    /\ cur = NoCur /\ i = 0 /\ count = 0 /\ acc = 0 /\ total_loss = 0
    /\ c = 0 /\ acc_loss = 0 /\ acc_acc = 0
    /\ printed = <<>> /\ result = NoResult /\ hist = <<>> /\ params0 = 0

LoopIdle ==
    /\ LoopFresh
    /\ loader = <<>> /\ test_loader = <<>> /\ dataset = <<>> /\ samples0 = 0
    /\ epoch_size = 0 /\ report_freq = 1 /\ samples_to_train = 0 /\ iterations = 0

NoPad == [raised |-> FALSE, labels |-> <<>>, features |-> <<>>, lengths |-> <<>>]

PadIdle == pad_b = <<>> /\ pad_out = NoPad

TokIdle == text = <<>> /\ tokens = <<>> /\ codes = <<>> /\ decoded = <<>>

TfidfIdle == tfidf_row = <<>>

ExtIdle == iterations0 = 0 /\ PadIdle /\ TokIdle /\ TfidfIdle

InitBow ==
    /\ prog = "to_bow" /\ pc = "start"
    /\ wordvec \in SeqsUpTo(0..MaxTok, MaxLen)
    /\ perm = wordvec
    /\ bow_vocab_size \in 0..MaxVocab
    /\ res = <<>> /\ res_perm = <<>>
    /\ BatchIdle /\ GenIdle /\ LoopIdle /\ ExtIdle

InitBatch ==
    /\ prog = "get_batch" /\ pc = "start"
    /\ s \in SeqsUpTo({<<ch>> : ch \in Alphabet}, MaxText)
    /\ nchars \in 0..MaxNchars
    /\ batch = NoBatch
    /\ BowIdle /\ GenIdle /\ LoopIdle /\ ExtIdle

InitGen ==
    /\ prog = "generate" /\ pc = "start"
    /\ start \in SeqsUpTo(Alphabet, MaxStart)
    /\ size \in 0..MaxSize
    /\ chars = <<>> /\ gi = 0 /\ ret = <<>>
    /\ BowIdle /\ BatchIdle /\ LoopIdle /\ ExtIdle

\* the DataLoader's minibatch sizes for n samples and batch_size b
Batches(n, b) ==
    [k \in 1..((n + b - 1) \div b) |-> IF k * b <= n THEN b ELSE n - (k - 1) * b]

\* the texts of the generative loop are known by their length: one that is
\* just too short to train on and one that is just long enough
TextLens == {nchars_default + MinRows - 1, nchars_default + MinRows}

InitTrainEpoch ==
    /\ prog = "train_epoch" /\ pc = "start"
    /\ \E n \in 0..MaxSamples, b \in 1..MaxBatch : loader = Batches(n, b)
    /\ dataset = loader
    /\ epoch_size \in 0..MaxEpoch
    /\ report_freq \in 1..MaxFreq
    /\ test_loader = <<>> /\ samples_to_train = 0 /\ samples0 = 0 /\ iterations = 0
    /\ LoopFresh
    /\ BowIdle /\ BatchIdle /\ GenIdle /\ ExtIdle

InitGenTrain ==
    /\ prog = "gen_train" /\ pc = "fetch"
    /\ loader \in SeqsUpTo(TextLens, MaxExamples)
    /\ dataset = loader
    /\ samples_to_train \in 1..MaxToTrain
    /\ samples0 = samples_to_train
    /\ epoch_size = 0 /\ report_freq = 1 /\ test_loader = <<>> /\ iterations = 0
    /\ LoopFresh
    /\ s = <<>> /\ nchars = nchars_default /\ batch = NoBatch
    /\ BowIdle /\ GenIdle /\ ExtIdle

InitBert ==
    /\ prog = "bert" /\ pc = "fetch"
    /\ \E n \in 0..MaxBatches : loader = [k \in 1..n |-> BatchSize]
    /\ dataset = loader
    /\ \E n \in 0..MaxTest : test_loader = [k \in 1..n |-> BatchSize]
    /\ report_freq \in 1..MaxFreq
    /\ iterations \in 1..MaxIter
    /\ iterations0 = iterations
    /\ epoch_size = 0 /\ samples_to_train = 0 /\ samples0 = 0
    /\ LoopFresh
    /\ BowIdle /\ BatchIdle /\ GenIdle
    /\ PadIdle /\ TokIdle /\ TfidfIdle

OthersIdle == BowIdle /\ BatchIdle /\ GenIdle /\ LoopIdle /\ iterations0 = 0

\* the texts of the dataset are not empty
InitPad ==
    /\ prog = "pad_length" /\ pc = "start"
    /\ pad_b \in SeqsUpTo(PadLabels \X (SeqsUpTo(PadToks, MaxSeq) \ {<<>>}), MaxPadBatch)
    /\ pad_out = NoPad
    /\ OthersIdle /\ TokIdle /\ TfidfIdle

\* a text of the dataset; "z" is a character the vocabulary does not hold
InitTok ==
    /\ prog = "tokenize" /\ pc = "start"
    /\ text \in SeqsUpTo(Alphabet, MaxText)
    /\ tokens = <<>> /\ codes = <<>> /\ decoded = <<>>
    /\ OthersIdle /\ PadIdle /\ TfidfIdle

InitTfidf ==
    /\ prog = "tfidf" /\ pc = "start"
    /\ tfidf_row = <<>>
    /\ OthersIdle /\ PadIdle /\ TokIdle

Init ==
    \/ InitBow \/ InitBatch \/ InitGen \/ InitTrainEpoch \/ InitGenTrain \/ InitBert
    \/ InitPad \/ InitTok \/ InitTfidf

----------------------------------------------------------------------------
(* to_bow: the call of the cell, and a second call on a reordered text *)

ToBow ==
    /\ prog = "to_bow" /\ pc = "start"
    /\ res' = to_bow(wordvec, bow_vocab_size)
    /\ res_perm' = to_bow(perm, bow_vocab_size)
    /\ pc' = "done"
    /\ UNCHANGED <<prog, wordvec, perm, bow_vocab_size, batchvars, genvars, loopvars, extvars>>

Swap(q, x, y) == [q EXCEPT ![x] = q[y], ![y] = q[x]]

ToBowReordered ==
    /\ prog = "to_bow" /\ pc = "done"
    /\ \E x, y \in 1..Len(perm) :
          /\ x < y
          /\ perm[x] # perm[y]
          /\ perm' = Swap(perm, x, y)
    /\ res_perm' = to_bow(perm', bow_vocab_size)
    /\ UNCHANGED <<prog, pc, wordvec, bow_vocab_size, res, batchvars, genvars, loopvars,
                   extvars>>

(* get_batch *)

GetBatch ==
    /\ prog = "get_batch" /\ pc = "start"
    /\ batch' = get_batch(s, nchars)
    /\ pc' = IF batch'.raised THEN "raised" ELSE "done"
    /\ UNCHANGED <<prog, s, nchars, bowvars, genvars, loopvars, extvars>>

(* generate *)

\* chars = list(start); out, s = net(encode_text(chars).view(1,-1)):
\* view(1,-1) of a tensor without elements is an error of the library
GenerateStart ==
    /\ prog = "generate" /\ pc = "start"
    /\ chars' = char_tokenizer(start)
    /\ pc' = IF VLen(encode_text(chars')) = 0 THEN "raised" ELSE "loop"
    /\ UNCHANGED <<prog, start, size, gi, ret, bowvars, batchvars, loopvars, extvars>>

\* one turn of for i in range(size): nc is the argmax of the network output
append_replace(cs, tok) == IF cs = <<>> THEN <<tok>> ELSE [cs EXCEPT ![Len(cs)] = tok]

append(cs, tok) == Append(cs, tok)

GenerateStep ==
    /\ prog = "generate" /\ pc = "loop"
    /\ gi < size
    /\ \E nc \in 0..(vocab_size - 1) : chars' = append(chars, itos_at(nc))
    /\ gi' = gi + 1
    /\ UNCHANGED <<prog, pc, start, size, ret, bowvars, batchvars, loopvars, extvars>>

GenerateReturn ==
    /\ prog = "generate" /\ pc = "loop"
    /\ gi = size
    /\ ret' = join(chars)
    /\ pc' = "done"
    /\ UNCHANGED <<prog, start, size, chars, gi, bowvars, batchvars, loopvars, extvars>>

----------------------------------------------------------------------------
(* What the three training loops share *)

Ratio(a, b) == [num |-> a, den |-> b]

\* the loss of a minibatch of n samples of which ok are predicted right, in
\* loss units: never 0, larger the more predictions are wrong
loss_of(n, ok) == 1 + (n - ok)

\* optimizer.step(): the parameters move by the gradient buffer
stepped(p, g) == (p + g) % ParamMod

----------------------------------------------------------------------------
(* train_epoch (2-representing-text) *)

\* if i%report_freq==0
report_due_early(k, rf) == (k + 1) % rf = 0

report_due(k, rf) == k % rf = 0

\* if epoch_size and count>epoch_size
epoch_done_never(es, cnt) == FALSE

epoch_done(es, cnt) == es # 0 /\ cnt > es

\* optimizer = ...; net.train(); total_loss,acc,count,i = 0,0,0,0
TrainEpochCall ==
    /\ prog = "train_epoch" /\ pc = "start"
    /\ mode' = "train"
    /\ total_loss' = 0 /\ acc' = 0 /\ count' = 0 /\ i' = 0
    /\ pc' = "fetch"
    /\ UNCHANGED <<prog, grad, params, opt_steps, loader, test_loader, cur, epoch_size,
                   report_freq, samples_to_train, c, acc_loss, acc_acc, iterations,
                   printed, result, dataset, samples0, hist, params0, bowvars, batchvars,
                   genvars, extvars>>

\* for labels,features in dataloader: the next minibatch, or the end of the loop
TrainEpochFetch ==
    /\ prog = "train_epoch" /\ pc = "fetch"
    /\ IF loader = <<>>
       THEN pc' = "return" /\ UNCHANGED <<loader, cur>>
       ELSE /\ cur' = [n |-> Head(loader), ok |-> 0, loss |-> 0]
            /\ loader' = Tail(loader)
            /\ pc' = "zero_grad"
    /\ UNCHANGED <<prog, mode, grad, params, opt_steps, test_loader, i, count, acc,
                   total_loss, epoch_size, report_freq, samples_to_train, c, acc_loss,
                   acc_acc, iterations, printed, result, dataset, samples0, hist, params0,
                   bowvars, batchvars, genvars, extvars>>

TrainEpochZeroGrad_forgotten ==
    /\ prog = "train_epoch" /\ pc = "zero_grad"
    /\ grad' = grad
    /\ pc' = "forward"
    /\ UNCHANGED <<prog, mode, params, opt_steps, loader, test_loader, cur, i, count,
                   acc, total_loss, epoch_size, report_freq, samples_to_train, c,
                   acc_loss, acc_acc, iterations, printed, result, dataset, samples0, hist,
                   params0, bowvars, batchvars, genvars, extvars>>

\* optimizer.zero_grad()
TrainEpochZeroGrad ==
    /\ prog = "train_epoch" /\ pc = "zero_grad"
    /\ grad' = 0
    /\ pc' = "forward"
    /\ UNCHANGED <<prog, mode, params, opt_steps, loader, test_loader, cur, i, count,
                   acc, total_loss, epoch_size, report_freq, samples_to_train, c,
                   acc_loss, acc_acc, iterations, printed, result, dataset, samples0, hist,
                   params0, bowvars, batchvars, genvars, extvars>>

\* out = net(features); loss = loss_fn(out,labels)
TrainEpochForward ==
    /\ prog = "train_epoch" /\ pc = "forward"
    /\ \E ok \in 0..cur.n : cur' = [cur EXCEPT !.ok = ok, !.loss = loss_of(cur.n, ok)]
    /\ hist' = Append(hist, cur')
    /\ pc' = "backward"
    /\ UNCHANGED <<prog, mode, grad, params, opt_steps, loader, test_loader, i, count,
                   acc, total_loss, epoch_size, report_freq, samples_to_train, c,
                   acc_loss, acc_acc, iterations, printed, result, dataset, samples0, params0,
                   bowvars, batchvars, genvars, extvars>>

\* loss.backward(): the gradient of the loss is added to the buffer
TrainEpochBackward ==
    /\ prog = "train_epoch" /\ pc = "backward"
    /\ grad' = grad + cur.loss
    /\ pc' = "step"
    /\ UNCHANGED <<prog, mode, params, opt_steps, loader, test_loader, cur, i, count,
                   acc, total_loss, epoch_size, report_freq, samples_to_train, c,
                   acc_loss, acc_acc, iterations, printed, result, dataset, samples0, hist,
                   params0, bowvars, batchvars, genvars, extvars>>

\* optimizer.step()
TrainEpochStep ==
    /\ prog = "train_epoch" /\ pc = "step"
    /\ params' = stepped(params, grad)
    /\ opt_steps' = opt_steps + 1
    /\ pc' = "account"
    /\ UNCHANGED <<prog, mode, grad, loader, test_loader, cur, i, count, acc,
                   total_loss, epoch_size, report_freq, samples_to_train, c, acc_loss,
                   acc_acc, iterations, printed, result, dataset, samples0, hist, params0,
                   bowvars, batchvars, genvars, extvars>>

\* the accumulators, the report and the test that ends the loop early
TrainEpochAccount ==
    /\ prog = "train_epoch" /\ pc = "account"
    /\ total_loss' = total_loss + cur.loss
    /\ acc' = acc + cur.ok
    /\ count' = count + cur.n
    /\ i' = i + 1
    /\ printed' = IF report_due(i', report_freq)
                  THEN Append(printed, [i |-> i', count |-> count', acc |-> Ratio(acc', count')])
                  ELSE printed
    /\ pc' = IF epoch_done(epoch_size, count') THEN "return" ELSE "fetch"
    /\ UNCHANGED <<prog, mode, grad, params, opt_steps, loader, test_loader, cur,
                   epoch_size, report_freq, samples_to_train, c, acc_loss, acc_acc,
                   iterations, result, dataset, samples0, hist, params0, bowvars, batchvars,
                   genvars, extvars>>

\* return total_loss.item()/count, acc.item()/count: without a minibatch
\* total_loss is still the int 0, which has no item()
TrainEpochReturn ==
    /\ prog = "train_epoch" /\ pc = "return"
    /\ IF i = 0
       THEN pc' = "raised" /\ UNCHANGED result
       ELSE /\ result' = [returned |-> TRUE, loss |-> Ratio(total_loss, count),
                          acc |-> Ratio(acc, count)]
            /\ pc' = "done"
    /\ UNCHANGED <<prog, mode, grad, params, opt_steps, loader, test_loader, cur, i,
                   count, acc, total_loss, epoch_size, report_freq, samples_to_train,
                   c, acc_loss, acc_acc, iterations, printed, dataset, samples0, hist, params0,
                   bowvars, batchvars, genvars, extvars>>

----------------------------------------------------------------------------
(* The training loop of the generative notebook *)

\* for i,x in enumerate(train_dataset.examples): the skip of a short text,
\* the countdown, the break and get_batch
GenTrainFetch ==
    /\ prog = "gen_train" /\ pc = "fetch"
    /\ IF loader = <<>>
       THEN pc' = "done" /\ UNCHANGED <<loader, i, samples_to_train, cur>>
       ELSE /\ loader' = Tail(loader)
            /\ i' = Len(dataset) - Len(loader)
            /\ IF Head(loader) - nchars < MinRows
               THEN pc' = "fetch" /\ UNCHANGED <<samples_to_train, cur>>
               ELSE /\ samples_to_train' = samples_to_train - 1
                    /\ IF samples_to_train' = 0
                       THEN pc' = "done" /\ UNCHANGED cur
                       ELSE /\ cur' = [n |-> Head(loader) - nchars, ok |-> 0, loss |-> 0]
                            /\ pc' = "zero_grad"
    /\ UNCHANGED <<prog, mode, grad, params, opt_steps, test_loader, count, acc,
                   total_loss, epoch_size, report_freq, c, acc_loss, acc_acc,
                   iterations, printed, result, dataset, samples0, hist, params0, bowvars,
                   batchvars, genvars, extvars>>

\* optimizer.zero_grad()
GenTrainZeroGrad ==
    /\ prog = "gen_train" /\ pc = "zero_grad"
    /\ grad' = 0
    /\ pc' = "forward"
    /\ UNCHANGED <<prog, mode, params, opt_steps, loader, test_loader, cur, i, count,
                   acc, total_loss, epoch_size, report_freq, samples_to_train, c,
                   acc_loss, acc_acc, iterations, printed, result, dataset, samples0, hist,
                   params0, bowvars, batchvars, genvars, extvars>>

\* out,s = net(text_in); loss = cross_entropy(...)
GenTrainForward ==
    /\ prog = "gen_train" /\ pc = "forward"
    /\ \E l \in 1..MaxLoss : cur' = [cur EXCEPT !.loss = l]
    /\ hist' = Append(hist, cur')
    /\ pc' = "backward"
    /\ UNCHANGED <<prog, mode, grad, params, opt_steps, loader, test_loader, i, count,
                   acc, total_loss, epoch_size, report_freq, samples_to_train, c,
                   acc_loss, acc_acc, iterations, printed, result, dataset, samples0, params0,
                   bowvars, batchvars, genvars, extvars>>

\* loss.backward()
GenTrainBackward ==
    /\ prog = "gen_train" /\ pc = "backward"
    /\ grad' = grad + cur.loss
    /\ pc' = "step"
    /\ UNCHANGED <<prog, mode, params, opt_steps, loader, test_loader, cur, i, count,
                   acc, total_loss, epoch_size, report_freq, samples_to_train, c,
                   acc_loss, acc_acc, iterations, printed, result, dataset, samples0, hist,
                   params0, bowvars, batchvars, genvars, extvars>>

\* optimizer.step()
GenTrainStep ==
    /\ prog = "gen_train" /\ pc = "step"
    /\ params' = stepped(params, grad)
    /\ opt_steps' = opt_steps + 1
    /\ pc' = "report"
    /\ UNCHANGED <<prog, mode, grad, loader, test_loader, cur, i, count, acc,
                   total_loss, epoch_size, report_freq, samples_to_train, c, acc_loss,
                   acc_acc, iterations, printed, result, dataset, samples0, hist, params0,
                   bowvars, batchvars, genvars, extvars>>

\* if i%1000==0: print the loss and generate(net); the line keeps the
\* number of steps taken so far
GenTrainReport ==
    /\ prog = "gen_train" /\ pc = "report"
    /\ printed' = IF i % PrintEvery = 0
                  THEN Append(printed, [i |-> i, loss |-> cur.loss, at |-> opt_steps])
                  ELSE printed
    /\ pc' = "fetch"
    /\ UNCHANGED <<prog, mode, grad, params, opt_steps, loader, test_loader, cur, i,
                   count, acc, total_loss, epoch_size, report_freq, samples_to_train,
                   c, acc_loss, acc_acc, iterations, result, dataset, samples0, hist, params0,
                   bowvars, batchvars, genvars, extvars>>

----------------------------------------------------------------------------
(* BERT fine-tuning and evaluation (6-attention-transformers) *)

\* for (labels,heads,texts),_ in train_iter
BertFetch ==
    /\ prog = "bert" /\ pc = "fetch"
    /\ IF loader = <<>>
       THEN pc' = "eval_start" /\ UNCHANGED <<loader, cur>>
       ELSE /\ cur' = [n |-> Head(loader), ok |-> 0, loss |-> 0]
            /\ loader' = Tail(loader)
            /\ pc' = "forward"
    /\ UNCHANGED <<prog, mode, grad, params, opt_steps, test_loader, i, count, acc,
                   total_loss, epoch_size, report_freq, samples_to_train, c, acc_loss,
                   acc_acc, iterations, printed, result, dataset, samples0, hist, params0,
                   bowvars, batchvars, genvars, extvars>>

\* loss, out = model(texts, labels=labels)[:2]; labs; acc
BertForward ==
    /\ prog = "bert" /\ pc = "forward"
    /\ \E ok \in 0..cur.n : cur' = [cur EXCEPT !.ok = ok, !.loss = loss_of(cur.n, ok)]
    /\ hist' = Append(hist, cur')
    /\ pc' = "zero_grad"
    /\ UNCHANGED <<prog, mode, grad, params, opt_steps, loader, test_loader, i, count,
                   acc, total_loss, epoch_size, report_freq, samples_to_train, c,
                   acc_loss, acc_acc, iterations, printed, result, dataset, samples0, params0,
                   bowvars, batchvars, genvars, extvars>>

\* optimizer.zero_grad()
BertZeroGrad ==
    /\ prog = "bert" /\ pc = "zero_grad"
    /\ grad' = 0
    /\ pc' = "backward"
    /\ UNCHANGED <<prog, mode, params, opt_steps, loader, test_loader, cur, i, count,
                   acc, total_loss, epoch_size, report_freq, samples_to_train, c,
                   acc_loss, acc_acc, iterations, printed, result, dataset, samples0, hist,
                   params0, bowvars, batchvars, genvars, extvars>>

\* loss.backward()
BertBackward ==
    /\ prog = "bert" /\ pc = "backward"
    /\ grad' = grad + cur.loss
    /\ pc' = "step"
    /\ UNCHANGED <<prog, mode, params, opt_steps, loader, test_loader, cur, i, count,
                   acc, total_loss, epoch_size, report_freq, samples_to_train, c,
                   acc_loss, acc_acc, iterations, printed, result, dataset, samples0, hist,
                   params0, bowvars, batchvars, genvars, extvars>>

\* optimizer.step()
BertStep ==
    /\ prog = "bert" /\ pc = "step"
    /\ params' = stepped(params, grad)
    /\ opt_steps' = opt_steps + 1
    /\ pc' = "account"
    /\ UNCHANGED <<prog, mode, grad, loader, test_loader, cur, i, count, acc,
                   total_loss, epoch_size, report_freq, samples_to_train, c, acc_loss,
                   acc_acc, iterations, printed, result, dataset, samples0, hist, params0,
                   bowvars, batchvars, genvars, extvars>>

BertAccount_nobreak ==
    /\ prog = "bert" /\ pc = "account"
    /\ i' = i + 1
    /\ IF (i + 1) % report_freq = 0
       THEN /\ printed' = Append(printed, [kind |-> "train", i |-> i + 1, c |-> c + 1,
                                           loss |-> Ratio(acc_loss + cur.loss, c + 1),
                                           acc |-> Ratio(acc_acc + cur.ok, c + 1)])
            /\ c' = 0 /\ acc_loss' = 0 /\ acc_acc' = 0
       ELSE /\ c' = c + 1
            /\ acc_loss' = acc_loss + cur.loss
            /\ acc_acc' = acc_acc + cur.ok
            /\ printed' = printed
    /\ iterations' = iterations - 1
    /\ pc' = "fetch"
    /\ UNCHANGED <<prog, mode, grad, params, opt_steps, loader, test_loader, cur,
                   count, acc, total_loss, epoch_size, report_freq, samples_to_train,
                   result, dataset, samples0, hist, params0, bowvars, batchvars, genvars,
                   extvars>>

BertAccount_noreset ==
    /\ prog = "bert" /\ pc = "account"
    /\ i' = i + 1
    /\ IF (i + 1) % report_freq = 0
       THEN /\ printed' = Append(printed, [kind |-> "train", i |-> i + 1, c |-> c + 1,
                                           loss |-> Ratio(acc_loss + cur.loss, c + 1),
                                           acc |-> Ratio(acc_acc + cur.ok, c + 1)])
            /\ c' = c + 1 /\ acc_loss' = 0 /\ acc_acc' = 0
       ELSE /\ c' = c + 1
            /\ acc_loss' = acc_loss + cur.loss
            /\ acc_acc' = acc_acc + cur.ok
            /\ printed' = printed
    /\ iterations' = iterations - 1
    /\ pc' = IF iterations' = 0 THEN "eval_start" ELSE "fetch"
    /\ UNCHANGED <<prog, mode, grad, params, opt_steps, loader, test_loader, cur,
                   count, acc, total_loss, epoch_size, report_freq, samples_to_train,
                   result, dataset, samples0, hist, params0, bowvars, batchvars, genvars,
                   extvars>>

\* the running sums, the report that resets them, and the countdown;
\* the accuracy of a minibatch is counted in units of 1/BatchSize
BertAccount ==
    /\ prog = "bert" /\ pc = "account"
    /\ i' = i + 1
    /\ IF (i + 1) % report_freq = 0
       THEN /\ printed' = Append(printed, [kind |-> "train", i |-> i + 1, c |-> c + 1,
                                           loss |-> Ratio(acc_loss + cur.loss, c + 1),
                                           acc |-> Ratio(acc_acc + cur.ok, c + 1)])
            /\ c' = 0 /\ acc_loss' = 0 /\ acc_acc' = 0
       ELSE /\ c' = c + 1
            /\ acc_loss' = acc_loss + cur.loss
            /\ acc_acc' = acc_acc + cur.ok
            /\ printed' = printed
    /\ iterations' = iterations - 1
    /\ pc' = IF iterations' = 0 THEN "eval_start" ELSE "fetch"
    /\ UNCHANGED <<prog, mode, grad, params, opt_steps, loader, test_loader, cur,
                   count, acc, total_loss, epoch_size, report_freq, samples_to_train,
                   result, dataset, samples0, hist, params0, bowvars, batchvars, genvars,
                   extvars>>

\* model.eval(); iterations = 100; acc = 0; i = 0
BertEvalStart ==
    /\ prog = "bert" /\ pc = "eval_start"
    /\ mode' = "eval"
    /\ iterations' = EvalIterations
    /\ acc' = 0 /\ i' = 0
    /\ params0' = params
    /\ pc' = "eval_fetch"
    /\ UNCHANGED <<prog, grad, params, opt_steps, loader, test_loader, cur, count,
                   total_loss, epoch_size, report_freq, samples_to_train, c, acc_loss,
                   acc_acc, printed, result, dataset, samples0, hist, bowvars, batchvars,
                   genvars, extvars>>

\* for (labels,heads,texts),_ in test_iter
BertEvalFetch ==
    /\ prog = "bert" /\ pc = "eval_fetch"
    /\ IF test_loader = <<>>
       THEN pc' = "eval_print" /\ UNCHANGED <<test_loader, cur>>
       ELSE /\ cur' = [n |-> Head(test_loader), ok |-> 0, loss |-> 0]
            /\ test_loader' = Tail(test_loader)
            /\ pc' = "eval_forward"
    /\ UNCHANGED <<prog, mode, grad, params, opt_steps, loader, i, count, acc,
                   total_loss, epoch_size, report_freq, samples_to_train, c, acc_loss,
                   acc_acc, iterations, printed, result, dataset, samples0, hist, params0,
                   bowvars, batchvars, genvars, extvars>>

BertEvalForward_trains ==
    /\ prog = "bert" /\ pc = "eval_forward"
    /\ \E ok \in 0..cur.n : cur' = [cur EXCEPT !.ok = ok, !.loss = loss_of(cur.n, ok)]
    /\ grad' = cur'.loss
    /\ params' = stepped(params, grad')
    /\ opt_steps' = opt_steps + 1
    /\ pc' = "eval_account"
    /\ UNCHANGED <<prog, mode, loader, test_loader, i, count, acc, total_loss,
                   epoch_size, report_freq, samples_to_train, c, acc_loss, acc_acc,
                   iterations, printed, result, dataset, samples0, hist, params0, bowvars,
                   batchvars, genvars, extvars>>

\* _, out = model(texts, labels=labels)[:2]; labs = out.argmax(dim=1)
BertEvalForward ==
    /\ prog = "bert" /\ pc = "eval_forward"
    /\ \E ok \in 0..cur.n : cur' = [cur EXCEPT !.ok = ok, !.loss = loss_of(cur.n, ok)]
    /\ pc' = "eval_account"
    /\ UNCHANGED <<prog, mode, grad, params, opt_steps, loader, test_loader, i, count,
                   acc, total_loss, epoch_size, report_freq, samples_to_train, c,
                   acc_loss, acc_acc, iterations, printed, result, dataset, samples0, hist,
                   params0, bowvars, batchvars, genvars, extvars>>

\* acc += mean; i+=1; if i>iterations: break
BertEvalAccount ==
    /\ prog = "bert" /\ pc = "eval_account"
    /\ acc' = acc + cur.ok
    /\ i' = i + 1
    /\ pc' = IF i' > iterations THEN "eval_print" ELSE "eval_fetch"
    /\ UNCHANGED <<prog, mode, grad, params, opt_steps, loader, test_loader, cur,
                   count, total_loss, epoch_size, report_freq, samples_to_train, c,
                   acc_loss, acc_acc, iterations, printed, result, dataset, samples0, hist,
                   params0, bowvars, batchvars, genvars, extvars>>

\* print(f"Final accuracy: {acc.item()/i}"): without a test minibatch acc is
\* still the int 0, which has no item()
BertEvalPrint ==
    /\ prog = "bert" /\ pc = "eval_print"
    /\ IF i = 0
       THEN pc' = "raised" /\ UNCHANGED printed
       ELSE /\ printed' = Append(printed, [kind |-> "final", acc |-> Ratio(acc, i)])
            /\ pc' = "done"
    /\ UNCHANGED <<prog, mode, grad, params, opt_steps, loader, test_loader, cur, i,
                   count, acc, total_loss, epoch_size, report_freq, samples_to_train,
                   c, acc_loss, acc_acc, iterations, result, dataset, samples0, hist, params0,
                   bowvars, batchvars, genvars, extvars>>

----------------------------------------------------------------------------
(* pad_length, called as the collate function of a DataLoader *)

PadLength ==
    /\ prog = "pad_length" /\ pc = "start"
    /\ pad_out' = pad_length(pad_b)
    /\ pc' = IF pad_out'.raised THEN "raised" ELSE "done"
    /\ UNCHANGED <<prog, pad_b, bowvars, batchvars, genvars, loopvars, iterations0,
                   tokvars, tfidf_row>>

----------------------------------------------------------------------------
(* Tokenizing a text, encoding it and mapping the indices back *)

TokFrame == UNCHANGED <<prog, text, bowvars, batchvars, genvars, loopvars, iterations0,
                        padvars, tfidf_row>>

\* the Field tokenizes the text with char_tokenizer
Tokenize ==
    /\ prog = "tokenize" /\ pc = "start"
    /\ tokens' = char_tokenizer(text)
    /\ pc' = "tokenized"
    /\ UNCHANGED <<codes, decoded>>
    /\ TokFrame

\* encode_text(train_dataset.examples[0].Text)
Encode ==
    /\ prog = "tokenize" /\ pc = "tokenized"
    /\ codes' = encode_text(tokens)
    /\ pc' = "encoded"
    /\ UNCHANGED <<tokens, decoded>>
    /\ TokFrame

\* ''.join of TEXT.vocab.itos[nc] for every index nc
Decode ==
    /\ prog = "tokenize" /\ pc = "encoded"
    /\ decoded' = join([k \in 1..VLen(codes) |-> itos_at(codes[k - 1])])
    /\ pc' = "decoded"
    /\ UNCHANGED <<tokens, codes>>
    /\ TokFrame

----------------------------------------------------------------------------
(* vectorizer.transform(['My dog likes hot dogs on a hot day.']).toarray() *)

\* the vectorizer is the library's; its result is the array the cell shows
TfidfTransform ==
    /\ prog = "tfidf" /\ pc = "start"
    /\ tfidf_row' = tensor(transform_output)
    /\ pc' = "done"
    /\ UNCHANGED <<prog, bowvars, batchvars, genvars, loopvars, iterations0,
                   padvars, tokvars>>

----------------------------------------------------------------------------
Next ==
    \/ ToBow
    \/ ToBowReordered
    \/ GetBatch
    \/ GenerateStart
    \/ GenerateStep
    \/ GenerateReturn
    \/ TrainEpochCall
    \/ TrainEpochFetch
    \/ TrainEpochZeroGrad
    \/ TrainEpochForward
    \/ TrainEpochBackward
    \/ TrainEpochStep
    \/ TrainEpochAccount
    \/ TrainEpochReturn
    \/ GenTrainFetch
    \/ GenTrainZeroGrad
    \/ GenTrainForward
    \/ GenTrainBackward
    \/ GenTrainStep
    \/ GenTrainReport
    \/ BertFetch
    \/ BertForward
    \/ BertZeroGrad
    \/ BertBackward
    \/ BertStep
    \/ BertAccount
    \/ BertEvalStart
    \/ BertEvalFetch
    \/ BertEvalForward
    \/ BertEvalAccount
    \/ BertEvalPrint
    \/ PadLength
    \/ Tokenize
    \/ Encode
    \/ Decode
    \/ TfidfTransform

Spec == Init /\ [][Next]_vars

\* the cells run to their end: a step that can be taken is taken
FairSpec == Spec /\ WF_vars(Next)

----------------------------------------------------------------------------
(* Properties *)

\* the sum of f[k] for k in lo..hi
RECURSIVE SumOver(_, _, _)
SumOver(f, lo, hi) == IF lo > hi THEN 0 ELSE f[lo] + SumOver(f, lo + 1, hi)

\* the number of positions of w that hold k
Occurrences(w, k) == Cardinality({p \in 1..Len(w) : w[p] = k})

IsPrefix(a, b) == Len(a) <= Len(b) /\ \A k \in 1..Len(a) : b[k] = a[k]

BowDone == prog = "to_bow" /\ pc = "done"

\* C1: to_bow(w, V) has exactly V entries, entry k is the number of positions
\* of w that hold k, and the entries sum to the number of tokens below V.
C1_BowCounts ==
    BowDone =>
        /\ DOMAIN res = 0..(bow_vocab_size - 1)
        /\ \A k \in 0..(bow_vocab_size - 1) : res[k] = Occurrences(wordvec, k)
        /\ SumOver(res, 0, bow_vocab_size - 1)
              = Cardinality({p \in 1..Len(wordvec) : wordvec[p] < bow_vocab_size})

\* a text with a repeated token below the size and a token that is not below it
C1_Witness ==
    /\ BowDone
    /\ \E k \in 0..(bow_vocab_size - 1) : res[k] >= 2
    /\ \E p \in 1..Len(wordvec) : wordvec[p] >= bow_vocab_size

\* perm is a rearrangement of wordvec
IsPermutation(a, b) ==
    /\ Len(a) = Len(b)
    /\ \A k \in 0..MaxTok + 1 : Occurrences(a, k) = Occurrences(b, k)

\* C2: to_bow gives a reordered text the vector of the text.
C2_BowOrderInsensitive ==
    (BowDone /\ IsPermutation(perm, wordvec)) => res_perm = res

\* a text whose reordering differs from it, with a token counted and one dropped
C2_Witness ==
    /\ BowDone
    /\ perm # wordvec
    /\ IsPermutation(perm, wordvec)
    /\ perm[Len(perm)] # wordvec[Len(wordvec)]
    /\ \E k \in 0..(bow_vocab_size - 1) : res_perm[k] >= 1
    /\ \E p \in 1..Len(perm) : perm[p] >= bow_vocab_size

\* C3: for a text longer than nchars, get_batch returns len(s)-nchars rows of
\* nchars entries each, input row r the codes of s[r .. r+nchars-1], output row
\* r the codes of s[r+1 .. r+nchars], so every output row is its input row
\* shifted by one, and no assignment of a row fails.
C3_BatchRows ==
    (prog = "get_batch" /\ pc # "start" /\ Len(s) > nchars) =>
        /\ pc = "done"
        /\ ~batch.raised
        /\ DOMAIN batch.ins = 0..(Len(s) - nchars - 1)
        /\ DOMAIN batch.outs = 0..(Len(s) - nchars - 1)
        /\ \A r \in 0..(Len(s) - nchars - 1) :
              /\ DOMAIN batch.ins[r] = 0..(nchars - 1)
              /\ DOMAIN batch.outs[r] = 0..(nchars - 1)
              /\ \A k \in 0..(nchars - 1) :
                    /\ batch.ins[r][k] = stoi(s[r + k + 1])
                    /\ batch.outs[r][k] = stoi(s[r + k + 2])
              /\ \A k \in 0..(nchars - 2) : batch.outs[r][k] = batch.ins[r][k + 1]

\* a batch of at least two rows of two codes whose shift is visible
C3_Witness ==
    /\ prog = "get_batch" /\ pc = "done"
    /\ nchars >= 2
    /\ Len(s) >= nchars + 2
    /\ batch.ins[0] # batch.outs[0]
    /\ batch.outs[0] = batch.ins[1]

GenerateDone == prog = "generate" /\ pc = "done"

\* the tokens generate appended after the start string
Generated == SubSeq(chars, Len(start) + 1, Len(chars))

RECURSIVE SeenSamples(_)
SeenSamples(k) == IF k = 0 THEN 0 ELSE hist[k].n + SeenSamples(k - 1)

\* the correct predictions of the first k forward passes, summed
RECURSIVE SeenCorrect(_)
SeenCorrect(k) == IF k = 0 THEN 0 ELSE hist[k].ok + SeenCorrect(k - 1)

\* the texts the generative loop has taken from its dataset, and those of
\* them it skipped as too short
Fetched == Len(dataset) - Len(loader)

Skipped == Cardinality({k \in 1..Fetched : dataset[k] - nchars < MinRows})

\* a training loop is somewhere between the forward pass and optimizer.step()
Training ==
    \/ prog \in {"train_epoch", "gen_train"}
    \/ prog = "bert" /\ mode = "train"

StepPending == pc \in {"backward", "step"} \/ (prog = "bert" /\ pc = "zero_grad")

\* C5: in each iteration of the three training loops the gradient buffer is
\* cleared when the backward pass starts and holds the gradient of this
\* minibatch alone when the optimizer steps; every minibatch that went through
\* the network has taken exactly one step once its iteration is over, and a
\* skipped text takes none.
C5_StepOrder ==
    Training =>
        /\ pc = "backward" => grad = 0
        /\ pc = "step" => (grad = cur.loss /\ cur.loss > 0)
        /\ opt_steps = Len(hist) - (IF StepPending THEN 1 ELSE 0)
        /\ prog = "gen_train" => opt_steps <= Fetched - Skipped

\* the generative loop about to step a second time, after a skipped text
C5_Witness ==
    /\ prog = "gen_train" /\ pc = "step"
    /\ opt_steps >= 1
    /\ Skipped >= 1
    /\ hist[1].loss # cur.loss

EvalPhase ==
    /\ prog = "bert"
    /\ pc \in {"eval_fetch", "eval_forward", "eval_account", "eval_print", "done", "raised"}

\* C6: from model.eval() to the final print the network is in evaluation mode,
\* no optimizer step and no backward pass happens, and the parameters are
\* those the evaluation started with.
C6_EvalFrame ==
    EvalPhase =>
        /\ mode = "eval"
        /\ params = params0
        /\ opt_steps = Len(hist)
        /\ grad = (IF hist = <<>> THEN 0 ELSE hist[Len(hist)].loss)

\* the accuracy is printed after two test minibatches, the network trained before
C6_Witness ==
    /\ prog = "bert" /\ pc = "done"
    /\ i >= 2
    /\ opt_steps >= 2
    /\ params # 0

\* the samples on which train_epoch has taken a gradient step
TrainedSamples == SeenSamples(opt_steps)

\* C7, as claimed: with epoch_size = E > 0 the samples trained on never exceed E.
C7_Original ==
    (prog = "train_epoch" /\ epoch_size > 0) => TrainedSamples <= epoch_size

\* C7, amended: with epoch_size = E > 0 train_epoch stops after the first
\* minibatch that brings the count above E: the samples trained on before the
\* last minibatch never exceed E, and count is the number of samples trained on.
C7_EpochLimit ==
    (prog = "train_epoch" /\ epoch_size > 0 /\ opt_steps >= 1) =>
        /\ TrainedSamples - hist[opt_steps].n <= epoch_size
        /\ pc \in {"fetch", "return", "done"} => count = TrainedSamples
        /\ (pc = "fetch" /\ loader # <<>>) => count <= epoch_size

\* train_epoch has returned early, having trained on more than epoch_size samples
C7_Witness ==
    /\ prog = "train_epoch" /\ pc = "done"
    /\ epoch_size > 0
    /\ loader # <<>>
    /\ TrainedSamples > epoch_size

\* C8: train_epoch prints once after every report_freq minibatches and at no
\* other time, and each line gives the correct predictions since the start of
\* the call over the samples since the start of the call.
C8_Reports ==
    prog = "train_epoch" =>
        /\ Len(printed) = i \div report_freq
        /\ pc \in {"fetch", "return", "done", "raised"} => i = Len(hist)
        /\ \A k \in 1..Len(printed) :
              /\ printed[k].i = k * report_freq
              /\ printed[k].count = SeenSamples(k * report_freq)
              /\ printed[k].acc = Ratio(SeenCorrect(k * report_freq),
                                        SeenSamples(k * report_freq))

\* two reports, two minibatches apart, the second with more correct predictions
C8_Witness ==
    /\ prog = "train_epoch"
    /\ report_freq >= 2
    /\ Len(printed) >= 2
    /\ printed[2].acc.num > printed[1].acc.num
    /\ printed[1].acc.num > 0

\* the texts of the dataset that are long enough to train on
LongTexts == Cardinality({k \in 1..Len(dataset) : ~(dataset[k] - nchars < MinRows)})

\* C9: when the dataset holds at least samples_to_train texts that are long
\* enough, the generative loop ends having taken a gradient step on exactly
\* samples_to_train of them.
C9_Original ==
    (prog = "gen_train" /\ pc = "done" /\ LongTexts >= samples0) => opt_steps = samples0

\* C10: between two consecutive reports of the generative loop exactly
\* PrintEvery gradient steps are taken.
C10_Original ==
    prog = "gen_train" =>
        \A k \in 1..(Len(printed) - 1) : printed[k + 1].at - printed[k].at = PrintEvery

\* the BERT training loop has been left
BertTrainingOver ==
    /\ prog = "bert"
    /\ pc \notin {"fetch", "forward", "zero_grad", "backward", "step", "account"}

BertLimitKept ==
    prog = "bert" =>
        /\ opt_steps <= iterations0
        /\ Len(hist) <= iterations0
        /\ BertTrainingOver =>
              IF Len(dataset) >= iterations0
              THEN opt_steps = iterations0 /\ Len(loader) = Len(dataset) - iterations0
              ELSE opt_steps = Len(dataset) /\ loader = <<>>

\* C11: the BERT training loop is left, and when it is left it has taken
\* exactly `iterations` optimizer steps and fetched no further minibatch if
\* train_iter yields that many, and has exhausted train_iter otherwise; it
\* never takes more than `iterations` steps.
C11_IterationLimit ==
    /\ []BertLimitKept
    /\ (prog = "bert") ~> BertTrainingOver

\* the loop is left by its countdown with minibatches still to come
C11_Witness ==
    /\ prog = "bert" /\ pc = "eval_start"
    /\ iterations0 >= 2
    /\ opt_steps = iterations0
    /\ loader # <<>>

\* the losses, and the accuracies, of forward passes lo..hi, summed
BertLossSum(lo, hi) == SumOver([j \in 1..Len(hist) |-> hist[j].loss], lo, hi)

BertAccSum(lo, hi) == SumOver([j \in 1..Len(hist) |-> hist[j].ok], lo, hi)

\* C12: the BERT training loop prints after every report_freq iterations; a
\* line gives the loss and the accuracy summed over the report_freq iterations
\* since the previous line, divided by c = report_freq, and after every
\* iteration c is the iteration count modulo report_freq.
C12_BertReports ==
    prog = "bert" =>
        /\ mode = "train" =>
              /\ Len(printed) = i \div report_freq
              /\ c = i % report_freq
              /\ acc_loss = BertLossSum(i - c + 1, i)
              /\ acc_acc = BertAccSum(i - c + 1, i)
        /\ \A k \in 1..Len(printed) :
              printed[k].kind = "train" =>
                  /\ printed[k].i = k * report_freq
                  /\ printed[k].c = report_freq
                  /\ printed[k].c # 0
                  /\ printed[k].loss
                        = Ratio(BertLossSum((k - 1) * report_freq + 1, k * report_freq),
                                report_freq)
                  /\ printed[k].acc
                        = Ratio(BertAccSum((k - 1) * report_freq + 1, k * report_freq),
                                report_freq)

\* two reports of two iterations each, with different means
C12_Witness ==
    /\ prog = "bert" /\ mode = "train"
    /\ report_freq >= 2
    /\ Len(printed) >= 2
    /\ printed[2].loss # printed[1].loss
    /\ printed[1].acc.num > 0

\* sample k (from 0) of the minibatch: its label and its token sequence
PadLabelOf(k) == pad_b[k + 1][1]

PadSeqOf(k) == pad_b[k + 1][2]

\* the first n entries of a 0-based vector, as a list
CutTo(v, n) == [j \in 1..n |-> v[j - 1]]

\* C13: for a non-empty minibatch pad_length returns feature rows that all
\* have the length of the longest sequence, row k being sequence k followed
\* only by zeros, lengths[k] the length of sequence k and labels[k] its label,
\* so that row k cut to lengths[k] entries is sequence k.
C13_PadLength ==
    (prog = "pad_length" /\ pc # "start" /\ pad_b # <<>>) =>
        /\ pc = "done"
        /\ ~pad_out.raised
        /\ DOMAIN pad_out.labels = 0..(Len(pad_b) - 1)
        /\ DOMAIN pad_out.features = 0..(Len(pad_b) - 1)
        /\ DOMAIN pad_out.lengths = 0..(Len(pad_b) - 1)
        /\ \E longest \in 0..(Len(pad_b) - 1) :
              \A k \in 0..(Len(pad_b) - 1) :
                  /\ Len(PadSeqOf(k)) <= Len(PadSeqOf(longest))
                  /\ DOMAIN pad_out.features[k] = 0..(Len(PadSeqOf(longest)) - 1)
        /\ \A k \in 0..(Len(pad_b) - 1) :
              /\ pad_out.labels[k] = PadLabelOf(k)
              /\ pad_out.lengths[k] = Len(PadSeqOf(k))
              /\ \A j \in DOMAIN pad_out.features[k] :
                    pad_out.features[k][j]
                        = (IF j < Len(PadSeqOf(k)) THEN PadSeqOf(k)[j + 1] ELSE 0)
              /\ CutTo(pad_out.features[k], pad_out.lengths[k]) = PadSeqOf(k)

\* two samples of different lengths and labels, the shorter one padded after
\* a token that is not 0, the longer one holding the token 0
C13_Witness ==
    /\ prog = "pad_length" /\ pc = "done"
    /\ Len(pad_b) = 2
    /\ PadLabelOf(0) # PadLabelOf(1)
    /\ Len(PadSeqOf(0)) < Len(PadSeqOf(1))
    /\ PadSeqOf(0)[Len(PadSeqOf(0))] # 0
    /\ \E j \in 1..Len(PadSeqOf(1)) : PadSeqOf(1)[j] = 0
    /\ pad_out.features[0][Len(PadSeqOf(1)) - 1] = 0

\* every character of the text is a token of the vocabulary
AllInVocab == \A k \in 1..Len(text) : \E q \in 1..Len(itos) : itos[q] = <<text[k]>>

\* C14: char_tokenizer gives the characters of the text in order (joining
\* them gives the text back), encode_text gives one index per character, and
\* when every character is in the vocabulary, mapping the indices back
\* through itos gives the text.
C14_TokenizeRoundTrip ==
    prog = "tokenize" =>
        /\ pc # "start" =>
              /\ Len(tokens) = Len(text)
              /\ \A k \in 1..Len(text) : tokens[k] = <<text[k]>>
              /\ join(tokens) = text
        /\ pc \in {"encoded", "decoded"} =>
              /\ DOMAIN codes = 0..(Len(text) - 1)
              /\ \A k \in DOMAIN codes : codes[k] \in 0..(vocab_size - 1)
        /\ (pc = "decoded" /\ AllInVocab) => decoded = text

\* a text of different characters, all in the vocabulary, came back
C14_Witness ==
    /\ prog = "tokenize" /\ pc = "decoded"
    /\ Len(text) >= 3
    /\ AllInVocab
    /\ \E x, y \in 1..Len(text) : text[x] # text[y]
    /\ codes[0] # codes[Len(text) - 1]
    /\ decoded = text

\* C16: get_batch on a text shorter than nchars fails, the error of
\* torch.zeros leaving get_batch as it was raised; on a text of exactly
\* nchars characters it returns two tensors of 0 rows.
C16_ShortText ==
    (prog = "get_batch" /\ pc # "start") =>
        /\ Len(s) < nchars => (pc = "raised" /\ batch = Raised)
        /\ Len(s) = nchars =>
              /\ pc = "done"
              /\ ~batch.raised
              /\ DOMAIN batch.ins = {}
              /\ DOMAIN batch.outs = {}

\* a text that is not empty and shorter than nchars was refused
C16_Witness ==
    /\ prog = "get_batch" /\ pc = "raised"
    /\ Len(s) >= 1
    /\ Len(s) < nchars
    /\ batch = Raised

RECURSIVE Pow(_, _)
Pow(x, n) == IF n = 0 THEN 1 ELSE x * Pow(x, n - 1)

\* tf * log(N/df) of feature x is at most that of feature y: with N the
\* number of documents, (N/df_x)^tf_x <= (N/df_y)^tf_y, cleared of fractions
FormulaLeq(x, y) ==
    LET N == Len(corpus)
        tx == tf(feature_names[x], query)
        ty == tf(feature_names[y], query)
        dx == df(feature_names[x])
        dy == df(feature_names[y])
    IN  Pow(N, tx) * Pow(dy, ty) <= Pow(N, ty) * Pow(dx, tx)

\* tf * log(N/df) of feature x is 0
FormulaZero(x) == tf(feature_names[x], query) = 0 \/ df(feature_names[x]) = Len(corpus)

\* C15: the weight the TF-IDF vectorization produces for a word is
\* tf * log(N/df), 0 for a word of every document.  Weights of that form are
\* 0 exactly where tf = 0 or df = N, and are ordered as the numbers
\* (N/df)^tf are, whatever the base of the logarithm.
C15_Original ==
    (prog = "tfidf" /\ pc = "done") =>
        /\ DOMAIN tfidf_row = 0..(Len(feature_names) - 1)
        /\ \A x \in 1..Len(feature_names) :
              (tfidf_row[x - 1] = 0) <=> FormulaZero(x)
        /\ \A x, y \in 1..Len(feature_names) :
              (tfidf_row[x - 1] <= tfidf_row[y - 1]) <=> FormulaLeq(x, y)

====
